---- MODULE Spec2Model ----
(***************************************************************************)
(* Model of the Lakebridge Automation Portal (src/app.py), a Streamlit     *)
(* script.  Every user interaction re-runs the script top to bottom for    *)
(* the session that caused it; sessions run in separate threads of one     *)
(* process and share the module-level folders bridge/input and bridge/tmp. *)
(*                                                                         *)
(* A re-run is modelled as the sequence of its accesses to what sessions   *)
(* share, the folders bridge/input and bridge/tmp: opening a file for      *)
(* writing (which truncates it), writing it, and reading it for a request. *)
(* Each step is one such access together with the session-local code that *)
(* follows it up to the next access; handlers whose button was not         *)
(* pressed are local no-ops and are passed over.  Steps of different       *)
(* sessions interleave.  Strings are sequences of tokens, so that          *)
(* substring tests and formatting are computed.                            *)
(* The selectboxes (source technology / dialect) only feed the form data   *)
(* of the request and are left out.                                        *)
(* A session has one script thread.  A widget event that arrives while     *)
(* the script runs makes the runtime stop the run at its next st.* call,   *)
(* which raises RerunException instead of rendering; the run the event     *)
(* asked for starts when the stopped run is over.  The arrival is an input *)
(* of the step that holds that st.* call: a handler can be stopped at each *)
(* of its st.* calls, with what it rendered and recorded before that call. *)
(***************************************************************************)
EXTENDS Integers, Sequences, FiniteSets, TLC

\* ------------------------------------------------------------------ bounds
MaxUpload == 1         \* files in one analyzer upload
NumContents == 2       \* distinct file contents
MaxText == 1           \* tokens in a validation input document

\* ------------------------------------------------------- program constants
PromptLimit == 4000
HttpOk == 200

\* ------------------------------------------------------------------ values
Sessions == {"A", "B"}
Names == {"m1.xml", "m2.xml"}       \* file names in the shared folders
UserNames == {"m1.xml"}              \* names the single user gives their files
Contents == 1..NumContents
NoFile == 0            \* no file of that name
EmptyBytes == -1       \* a file just opened with "wb": zero bytes
MixedBytes == -2       \* bytes of two writers that had the file open together
None == "None"

ModeLast == "Use last Analyzer upload"
ModeNew == "Upload a new XML here"
RunModes == {ModeLast, ModeNew}

\* ------------------------------------------------------------ string helpers
Take(s, n) == SubSeq(s, 1, IF Len(s) < n THEN Len(s) ELSE n)

\* Python's `needle in hay` on strings
Contains(hay, needle) ==
  \E i \in 0..(Len(hay) - Len(needle)) :
     \A j \in 1..Len(needle) : hay[i + j] = needle[j]

SeqsUpTo(S, n) == UNION { [1..k -> S] : k \in 0..n }

\* =================================================================
\* llm_validate
\* =================================================================
\* message texts are kept without their leading emoji
KeyNeedle == <<"No", "Hugging", "Face", "API", "key">>
NoKeyMessage == KeyNeedle \o <<"found.", "Running", "mock", "mode.">>

MockReport ==
  << "Mock Validation Mode (no HF token)",
     "ETL Summary: The job reads source(s), applies transformations, and loads target(s).",
     "Matching: Key logic appears to align.",
     "No critical mismatches detected.",
     "Set HUGGINGFACE_API_KEY for real validation." >>

ErrorPrefix == "Error during LLM validation:"

\* os.getenv result: unset, set to the empty string, or set to a token
EnvKeys == { [set |-> FALSE, val |-> <<>>],
             [set |-> TRUE,  val |-> <<>>],
             [set |-> TRUE,  val |-> <<"hf_secret">>] }

\* `not hf_token`
IsFalsy(hf_token) == ~hf_token.set \/ Len(hf_token.val) = 0

\* what InferenceClient / text_generation may do
ExcMsgs == { <<"Connection", "refused">>,
             <<"401:">> \o KeyNeedle \o <<"provided">>,
             <<>> }
SvcTexts == { <<>>, <<"Final", "Verdict", "Pass">>, MockReport }
SvcExcClasses == {"HfHubHTTPError", "ConnectionError"}
Services ==
  { [kind |-> "ctor_raises", cls |-> "ConnectionError", msg |-> m, text |-> <<>>] :
       m \in ExcMsgs }
  \cup { [kind |-> "gen_raises", cls |-> c, msg |-> m, text |-> <<>>] :
       c \in SvcExcClasses, m \in ExcMsgs }
  \cup { [kind |-> "returns", cls |-> None, msg |-> <<>>, text |-> t] : t \in SvcTexts }

\* classes that `except Exception` catches (StopException and
\* RerunException derive from BaseException and are not among them)
ExceptionClasses == {"ValueError", "KeyError", "AttributeError", "JSONDecodeError",
                     "ConnectionError", "ReadTimeout", "HfHubHTTPError"}
Catches(cls) == cls \in ExceptionClasses

BuildPrompt(xml_text, pyspark_text) ==
  [xml |-> Take(xml_text, PromptLimit), py |-> Take(pyspark_text, PromptLimit)]

\* body of the try block: either a returned value or a raised Exception
TryBody(xml_text, pyspark_text, hf_token, svc) ==
  IF IsFalsy(hf_token)
    THEN [raised |-> TRUE, cls |-> "ValueError", msg |-> NoKeyMessage,
          value |-> <<>>, prompts |-> <<>>]
  ELSE IF svc.kind = "ctor_raises"
    THEN [raised |-> TRUE, cls |-> svc.cls, msg |-> svc.msg,
          value |-> <<>>, prompts |-> <<>>]
  ELSE IF svc.kind = "gen_raises"
    THEN [raised |-> TRUE, cls |-> svc.cls, msg |-> svc.msg, value |-> <<>>,
          prompts |-> <<BuildPrompt(xml_text, pyspark_text)>>]
  ELSE [raised |-> FALSE, cls |-> None, msg |-> <<>>, value |-> svc.text,
        prompts |-> <<BuildPrompt(xml_text, pyspark_text)>>]

\* except Exception as e
ExceptHandlerAlwaysError(msg) == <<ErrorPrefix>> \o msg
ExceptHandler(msg) ==
  IF Contains(msg, KeyNeedle) THEN MockReport ELSE <<ErrorPrefix>> \o msg

llm_validate(xml_text, pyspark_text, hf_token, svc) ==
  LET t == TryBody(xml_text, pyspark_text, hf_token, svc) IN
  [ result  |-> IF t.raised THEN ExceptHandler(t.msg) ELSE t.value,
    escaped |-> t.raised /\ ~Catches(t.cls),
    prompts |-> t.prompts ]

\* =================================================================
\* files, folders, messages
\* =================================================================
EmptyFolder == [n \in Names |-> NoFile]

\* open(p, "wb"): the file exists and is empty
OpenForWrite(fs, name) == [fs EXCEPT ![name] = EmptyBytes]

\* out.write(f.read()) and close.  If another writer filled the file after
\* this writer opened it, the two byte strings overlay each other.
WriteOutcomes(current, content) ==
  IF current \in {EmptyBytes, content} THEN {content} ELSE {content, MixedBytes}

WriteFile(fs, name, content) == [fs EXCEPT ![name] = content]

Msg(src, level, text) == [src |-> src, level |-> level, text |-> text]

\* =================================================================
\* what the backend (or the network) may answer
\* =================================================================
EmptyDict == [k \in {} |-> None]
Opt(k, v) == IF v = None THEN EmptyDict ELSE (k :> v)
NoJson == [tag |-> "malformed", val |-> EmptyDict]
ListJson == [tag |-> "list", val |-> EmptyDict]

TransportExceptions ==
  { [kind |-> "exception", cls |-> "ConnectionError", err |-> "Connection refused",
     status_code |-> 0, text |-> "", json |-> NoJson],
    [kind |-> "exception", cls |-> "ReadTimeout", err |-> "Read timed out",
     status_code |-> 0, text |-> "", json |-> NoJson] }

HttpResponse(code, text, json) ==
  [kind |-> "http", cls |-> None, err |-> "", status_code |-> code,
   text |-> text, json |-> json]

ErrorStatuses == { HttpResponse(500, "Internal Server Error", NoJson) }
BadBodies == { HttpResponse(HttpOk, "<html>", NoJson),
               HttpResponse(HttpOk, "[]", ListJson) }

ReportFiles == {"out/report1.xlsx"}
OutputFolders == {"out/transpiled1"}
StatusValues == {None, "success", "error"}
Messages == {None, "backend says no"}

AnalyzerDicts ==
  { Opt("status", st) @@ Opt("report_file", rf) @@ Opt("message", m) :
      st \in StatusValues, rf \in ReportFiles \cup {None}, m \in Messages }
AnalyzerResponses ==
  TransportExceptions \cup ErrorStatuses \cup BadBodies \cup
  { HttpResponse(HttpOk, "{...}", [tag |-> "dict", val |-> d]) : d \in AnalyzerDicts }

FileLists == { <<>>, <<"job.py">> }
TranspilerDicts ==
  { Opt("status", st) @@ Opt("output_folder", o) @@ Opt("message", m) @@ fl :
      st \in StatusValues, o \in OutputFolders \cup {None}, m \in Messages,
      fl \in {EmptyDict} \cup { "files" :> l : l \in FileLists } }
TranspilerResponses ==
  TransportExceptions \cup ErrorStatuses \cup BadBodies \cup
  { HttpResponse(HttpOk, "{...}", [tag |-> "dict", val |-> d]) : d \in TranspilerDicts }

TransportFailure(resp) ==
  \/ resp.kind = "exception"
  \/ resp.kind = "http" /\ resp.status_code # HttpOk
  \/ resp.kind = "http" /\ resp.status_code = HttpOk /\ resp.json.tag = "malformed"

\* the text an error message must carry for a transport failure
UnderlyingError(resp) ==
  IF resp.kind = "exception" THEN resp.err
  ELSE IF resp.status_code # HttpOk THEN resp.text
  ELSE "Expecting value"

\* dict.get(key, default)
Get(d, k, default) == IF k \in DOMAIN d THEN d[k] ELSE default

\* what is kept of a request for the record: the endpoint, the file content
\* sent, the transport error if there was one, and the status and result
\* path of a well-formed reply
Post(endpoint, file, resp, key) ==
  [endpoint |-> endpoint, file |-> file,
   failure |-> IF TransportFailure(resp) THEN UnderlyingError(resp) ELSE None,
   status |-> IF TransportFailure(resp) THEN None ELSE Get(resp.json.val, "status", None),
   result |-> IF TransportFailure(resp) THEN None ELSE Get(resp.json.val, key, None)]

\* =================================================================
\* tab1: the Run Analyzer button handler
\* =================================================================
\* lines 172-184, no exception raised by requests.post; returns the page
\* messages, the new last_analyzer_report and the exception raised, if any
AnalyzerOn200(res, old) ==
  IF Get(res, "status", None) = "success"
    THEN IF "report_file" \in DOMAIN res
      THEN [page |-> << Msg("analyzer", "success", <<"Analyzer completed successfully!">>),
                        Msg("analyzer", "info", <<"Report:", res["report_file"]>>),
                        Msg("analyzer", "markdown",
                            <<"Download Analyzer Report", res["report_file"]>>) >>,
            value |-> res["report_file"], exc |-> None, err |-> ""]
      ELSE [page |-> << Msg("analyzer", "success", <<"Analyzer completed successfully!">>) >>,
            value |-> old, exc |-> "KeyError", err |-> "'report_file'"]
    ELSE [page |-> << Msg("analyzer", "error", <<Get(res, "message", "Analyzer failed")>>) >>,
          value |-> old, exc |-> None, err |-> ""]

\* lines 166-186: the try block and its except clause
AnalyzerTry(resp, old) ==
  IF resp.kind = "exception"
    THEN [page |-> <<>>, value |-> old, exc |-> resp.cls, err |-> resp.err]
  ELSE IF resp.status_code # HttpOk
    THEN [page |-> << Msg("analyzer", "error", <<"Server error:", resp.text>>) >>,
          value |-> old, exc |-> None, err |-> ""]
  ELSE IF resp.json.tag = "malformed"
    THEN [page |-> <<>>, value |-> old, exc |-> "JSONDecodeError", err |-> "Expecting value"]
  ELSE IF resp.json.tag = "list"
    THEN [page |-> <<>>, value |-> old, exc |-> "AttributeError",
          err |-> "'list' object has no attribute 'get'"]
  ELSE AnalyzerOn200(resp.json.val, old)

\* except Exception as e: st.error(f"Request failed: {e}")
Except(src, t) ==
  IF t.exc = None THEN [page |-> t.page, value |-> t.value, escaped |-> None]
  ELSE IF Catches(t.exc)
    THEN [page |-> Append(t.page, Msg(src, "error", <<"Request failed:", t.err>>)),
          value |-> t.value, escaped |-> None]
  ELSE [page |-> t.page, value |-> t.value, escaped |-> t.exc]

\* whether a widget event of the session arrived during a staging step
RerunRequested == BOOLEAN

\* A handler can be stopped at each of its st.* calls.  `stop` numbers the
\* call at which a pending rerun is noticed: 0 for none, 1 for the first
\* call of the handler (its st.warning or st.spinner, before any request),
\* k + 1 for the k-th message rendered after the request.
StopPoints(page) == 0..(Len(page) + 1)

\* stopped at the handler's first st.* call: nothing sent, nothing rendered,
\* RerunException leaves the handler
StoppedOnEntry(old) ==
  [page |-> <<>>, posts |-> <<>>, value |-> old, escaped |-> "RerunException"]

\* r is what the try/except renders and records when it is not stopped.
\* Stopped at its k-th message, the messages before it are rendered and the
\* call raises RerunException, which no except clause of the handler
\* catches; the result is recorded right after the first message (lines
\* 175-176, 231-232), so it is recorded from the second message on.
StoppedAt(r, old, k) ==
  [page |-> Take(r.page, k - 1), value |-> IF k = 1 THEN old ELSE r.value,
   escaped |-> "RerunException"]

\* the try/except of a handler that has sent its request, under `stop`
Stoppable(r, old, stop) ==
  IF stop >= 2 /\ stop - 1 <= Len(r.page) THEN StoppedAt(r, old, stop - 1) ELSE r

\* lines 168-171: only the first staged file is sent
AnalyzerPost(paths, fs, resp) ==
  Post("/run_analyzer", fs[paths[1]], resp, "report_file")

\* lines 161-186
AnalyzerHandlerNoGuard(paths, fs, resp, old, stop) ==
  IF stop = 1 THEN StoppedOnEntry(old)
  ELSE LET r == Stoppable(Except("analyzer", AnalyzerTry(resp, old)), old, stop) IN
       [page |-> r.page,
        posts |-> << Post("/run_analyzer", IF paths = <<>> THEN NoFile ELSE fs[paths[1]],
                          resp, "report_file") >>,
        value |-> r.value, escaped |-> r.escaped]

AnalyzerHandler(paths, fs, resp, old, stop) ==
  IF stop = 1 THEN StoppedOnEntry(old)          \* at line 163 or 165
  ELSE IF paths = <<>>
    THEN [page |-> << Msg("analyzer", "warning",
                          <<"Please upload at least one XML file first.">>) >>,
          posts |-> <<>>, value |-> old, escaped |-> None]
  ELSE LET r == Stoppable(Except("analyzer", AnalyzerTry(resp, old)), old, stop) IN
       [page |-> r.page, posts |-> << AnalyzerPost(paths, fs, resp) >>,
        value |-> r.value, escaped |-> r.escaped]

\* =================================================================
\* tab2: the Run Transpiler button handler
\* =================================================================
RECURSIVE FileLinks(_, _)
FileLinks(folder, files) ==
  IF files = <<>> THEN <<>>
  ELSE << Msg("transpiler", "markdown", <<"Download", folder, Head(files)>>) >>
       \o FileLinks(folder, Tail(files))

\* lines 229-243
TranspilerOn200(res, old) ==
  IF Get(res, "status", None) = "success"
    THEN IF "output_folder" \in DOMAIN res
      THEN [page |-> << Msg("transpiler", "success", <<"Transpiler completed successfully!">>),
                        Msg("transpiler", "info", <<"Output folder:", res["output_folder"]>>) >>
                     \o (IF Get(res, "files", <<>>) # <<>>
                           THEN << Msg("transpiler", "subheader", <<"Generated Files">>) >>
                                \o FileLinks(res["output_folder"], res["files"])
                           ELSE << Msg("transpiler", "info",
                                       <<"No files returned by backend.">>) >>),
            value |-> res["output_folder"], exc |-> None, err |-> ""]
      ELSE [page |-> << Msg("transpiler", "success",
                            <<"Transpiler completed successfully!">>) >>,
            value |-> old, exc |-> "KeyError", err |-> "'output_folder'"]
    ELSE [page |-> << Msg("transpiler", "error", <<Get(res, "message", "Transpiler failed")>>) >>,
          value |-> old, exc |-> None, err |-> ""]

\* lines 228-245
TranspilerTry(resp, old) ==
  IF resp.kind = "exception"
    THEN [page |-> <<>>, value |-> old, exc |-> resp.cls, err |-> resp.err]
  ELSE IF resp.status_code # HttpOk
    THEN [page |-> << Msg("transpiler", "error", <<"Server error:", resp.text>>) >>,
          value |-> old, exc |-> None, err |-> ""]
  ELSE IF resp.json.tag = "malformed"
    THEN [page |-> <<>>, value |-> old, exc |-> "JSONDecodeError", err |-> "Expecting value"]
  ELSE IF resp.json.tag = "list"
    THEN [page |-> <<>>, value |-> old, exc |-> "AttributeError",
          err |-> "'list' object has no attribute 'get'"]
  ELSE TranspilerOn200(resp.json.val, old)

\* lines 213-247.  In "Upload a new XML here" mode without a file the
\* handler warns and calls st.stop(), whose StopException is not an
\* Exception; in "Use last Analyzer upload" mode it posts without a file.
TranspilerHandler(mode, path, fs, resp, old, stop) ==
  IF stop = 1 THEN StoppedOnEntry(old)          \* at line 214
  ELSE IF mode = ModeNew /\ path = None
    THEN IF stop = 2 THEN StoppedOnEntry(old)   \* at line 218
         ELSE LET r == Except("transpiler",
                   [page |-> << Msg("transpiler", "warning",
                                    <<"Please upload an XML first.">>) >>,
                    value |-> old, exc |-> "StopException", err |-> ""]) IN
              [page |-> r.page, posts |-> <<>>, value |-> r.value, escaped |-> r.escaped]
  ELSE LET r == Stoppable(Except("transpiler", TranspilerTry(resp, old)), old, stop) IN
       [page |-> r.page,
        posts |-> << Post("/run_transpiler",
                          IF mode = ModeNew THEN fs[path] ELSE NoFile,
                          resp, "output_folder") >>,
        value |-> r.value, escaped |-> r.escaped]

\* =================================================================
\* tab3: the Run LLM Validation button handler (lines 262-272)
\* =================================================================
Texts == SeqsUpTo({"x"}, MaxText)
Uploads == SeqsUpTo(Texts, 1)      \* a tab3 uploader holds no or one document

ValidateHandler(xml_file, pyspark_file, hf_token, svc, stop) ==
  IF stop = 1 THEN [page |-> <<>>, escaped |-> "RerunException"]   \* at line 264 or 268
  ELSE IF xml_file = <<>> \/ pyspark_file = <<>>
    THEN [page |-> << Msg("validate", "warning",
                          <<"Please upload both the XML and the PySpark file.">>) >>,
          escaped |-> None]
  ELSE LET r == llm_validate(xml_file[1], pyspark_file[1], hf_token, svc)
           report == << Msg("validate", "success", <<"Validation Completed">>),
                        Msg("validate", "markdown", <<"### Validation Report">>),
                        Msg("validate", "markdown", r.result) >>
       IN IF r.escaped THEN [page |-> <<>>, escaped |-> "Exception"]
          ELSE IF stop >= 2 /\ stop - 1 <= Len(report)
            THEN [page |-> Take(report, stop - 2), escaped |-> "RerunException"]
          ELSE [page |-> report, escaped |-> None]

\* =================================================================
\* state
\* =================================================================
VARIABLES
  uploaded_analyzer_paths,  \* st.session_state, per session
  last_analyzer_report,
  last_transpiler_output,
  uploaded,                 \* tab1 file_uploader widget, per session
  run_mode,                 \* tab2 radio widget
  new_xml,                  \* tab2 file_uploader widget (no or one file)
  new_xml_path,             \* local of the script run
  button,                   \* the button whose press caused the script run
  pc,                       \* "idle", or the point the script run has reached
  page,                     \* messages rendered by the script run
  posts,                    \* requests issued by the script run
  escaped,                  \* exception that ended the script run, if any
  input_fs,                 \* bridge/input, shared by all sessions
  tmp_fs,                   \* bridge/tmp, shared by all sessions
  calls,                    \* history: the latest llm_validate call (no or one)
  no_key_reports            \* history: reports returned while no key was configured

vars == << uploaded_analyzer_paths, last_analyzer_report, last_transpiler_output,
           uploaded, run_mode, new_xml, new_xml_path, button, pc, page, posts,
           escaped, input_fs, tmp_fs, calls, no_key_reports >>

sessionState == << uploaded_analyzer_paths, last_analyzer_report, last_transpiler_output >>
widgets == << uploaded, run_mode, new_xml >>
folders == << input_fs, tmp_fs >>
history == << calls, no_key_reports >>

Init ==
  /\ uploaded_analyzer_paths = [s \in Sessions |-> <<>>]
  /\ last_analyzer_report = [s \in Sessions |-> None]
  /\ last_transpiler_output = [s \in Sessions |-> None]
  /\ uploaded = [s \in Sessions |-> <<>>]
  /\ run_mode = [s \in Sessions |-> ModeLast]
  /\ new_xml = [s \in Sessions |-> <<>>]
  /\ new_xml_path = [s \in Sessions |-> None]
  /\ button = [s \in Sessions |-> "none"]
  /\ pc = [s \in Sessions |-> "idle"]
  /\ page = [s \in Sessions |-> <<>>]
  /\ posts = [s \in Sessions |-> <<>>]
  /\ escaped = [s \in Sessions |-> None]
  /\ input_fs = EmptyFolder
  /\ tmp_fs = EmptyFolder
  /\ calls = <<>>
  /\ no_key_reports = {}

\* ------------------------------------------------------------ user events
\* Every widget interaction requests a re-run of the script for the session.
\* The session's script thread starts the requested run at once if the
\* script is not running or has not made its first st.* call yet (that
\* call, line 12, stops the run with nothing done), else after the running
\* script has been stopped (StopForRerun and the stop branches of the steps).
StartRerun(s, b) ==
  /\ pc[s] \in {"idle", "start"}
  /\ pc' = [pc EXCEPT ![s] = "start"]
  /\ button' = [button EXCEPT ![s] = b]
  /\ UNCHANGED << new_xml_path, page, posts, escaped >>
  /\ UNCHANGED << sessionState, folders, history >>

\* the user changes the content of the tab1 uploader (possibly clearing it);
\* the files offered carry names from `names` and contents from `mine`,
\* at most `most` at a time
UploadAnalyzerFiles(s, names, mine, most) ==
  \E batch \in SeqsUpTo([name : names, content : mine], most) :
    /\ batch # uploaded[s]
    /\ uploaded' = [uploaded EXCEPT ![s] = batch]
    /\ UNCHANGED << run_mode, new_xml >>
    /\ StartRerun(s, "none")

\* the user flips the radio; the tab2 uploader exists only in ModeNew
ChooseRunMode(s) ==
  \E m \in RunModes :
    /\ m # run_mode[s]
    /\ run_mode' = [run_mode EXCEPT ![s] = m]
    /\ new_xml' = [new_xml EXCEPT ![s] = <<>>]
    /\ UNCHANGED uploaded
    /\ StartRerun(s, "none")

UploadTranspilerFile(s) ==
  \E f \in SeqsUpTo([name : UserNames, content : Contents], 1) :
    /\ run_mode[s] = ModeNew
    /\ f # new_xml[s]
    /\ new_xml' = [new_xml EXCEPT ![s] = f]
    /\ UNCHANGED << uploaded, run_mode >>
    /\ StartRerun(s, "none")

\* the user changes a widget the handlers do not read from the session: a
\* selectbox (lines 148, 195) or a tab3 uploader (lines 258, 260)
TouchOtherWidget(s) ==
  /\ UNCHANGED widgets
  /\ StartRerun(s, "none")

PressButton(s, buttons) ==
  \E b \in buttons :
    /\ UNCHANGED widgets
    /\ StartRerun(s, b)

\* ------------------------------------------------------------ the script
\* where the run goes next: handlers of buttons that were not pressed and
\* an uploader that holds nothing touch neither folder
AfterTab2Stage(s) ==
  IF button[s] = "transpile" THEN "tab2_button"
  ELSE IF button[s] = "validate" THEN "tab3_button" ELSE "end"
AfterAnalyze(s) ==
  IF run_mode[s] = ModeNew /\ new_xml[s] # <<>> THEN "tab2_open" ELSE AfterTab2Stage(s)
AfterTab1Stage(s) ==
  IF button[s] = "analyze" THEN "tab1_button" ELSE AfterAnalyze(s)

\* lines 28-42: the health badge, rendered at the top of every run
\* what requests.get(BACKEND_URL/, timeout=5) may do
HealthReplies ==
  {HttpResponse(HttpOk, "ok", NoJson)} \cup ErrorStatuses \cup TransportExceptions
render_backend_status(r) ==
  IF r.kind = "exception" THEN Msg("backend", "error", <<"Offline", r.err>>)
  ELSE IF r.status_code = HttpOk THEN Msg("backend", "success", <<"Online">>)
  ELSE Msg("backend", "warning", <<"Unhealthy (HTTP", ToString(r.status_code), ")">>)

\* the button whose handler has run when a run is cut short in or after
\* tab2's staging; a button whose st.button call did not return is not set
ButtonSoFar(s) == IF button[s] = "analyze" THEN "analyze" ELSE "none"

\* A widget event arrived and the script is about to make an st.* call
\* outside the handlers: an st.button call (lines 161, 213, 262), which
\* then does not return, or the tab2 widgets (lines 192-203).  The call
\* raises RerunException and the run is over.
StopForRerun(s) ==
  /\ pc[s] \in {"tab1_button", "tab2_open", "tab2_button", "tab3_button"}
  /\ pc' = [pc EXCEPT ![s] = "end"]
  /\ button' = [button EXCEPT ![s] = IF pc[s] = "tab2_open" THEN ButtonSoFar(s) ELSE "none"]
  /\ UNCHANGED << sessionState, widgets, new_xml_path, page, posts, escaped,
                  folders, history >>

\* lines 12-153: page header, health badge, folders, session keys and, if
\* the tab1 uploader holds files, the reset of the staged list
Prologue(s) ==
  /\ pc[s] = "start"
  /\ \E r \in HealthReplies :
       page' = [page EXCEPT ![s] = << render_backend_status(r) >>]
  /\ IF uploaded[s] # <<>>
       THEN /\ uploaded_analyzer_paths' = [uploaded_analyzer_paths EXCEPT ![s] = <<>>]
            /\ pc' = [pc EXCEPT ![s] = "stage_open"]
       ELSE /\ UNCHANGED uploaded_analyzer_paths
            /\ pc' = [pc EXCEPT ![s] = AfterTab1Stage(s)]
  /\ UNCHANGED << last_analyzer_report, last_transpiler_output, widgets, new_xml_path,
                  button, posts, escaped, folders, history >>

\* the file the staging loop is at: the staged list grows by one per file
CurrentUpload(s) == uploaded[s][Len(uploaded_analyzer_paths[s]) + 1]

\* lines 154-156: p = input_root / f.name; open(p, "wb")
StageOpen(s) ==
  /\ pc[s] = "stage_open"
  /\ input_fs' = OpenForWrite(input_fs, CurrentUpload(s).name)
  /\ pc' = [pc EXCEPT ![s] = "stage_write"]
  /\ UNCHANGED << sessionState, widgets, new_xml_path, button, page, posts, escaped,
                  tmp_fs, history >>

\* lines 157-159: write and close, record the path; after the last file the
\* notice is rendered, unless a widget event arrived since the uploader
\* call of line 151: the loop makes no st.* call, so st.success is where
\* the run stops
StageWrite(s) ==
  /\ pc[s] = "stage_write"
  /\ LET f == CurrentUpload(s) IN
     /\ \E bytes \in WriteOutcomes(input_fs[f.name], f.content) :
          input_fs' = WriteFile(input_fs, f.name, bytes)
     /\ uploaded_analyzer_paths' =
          [uploaded_analyzer_paths EXCEPT ![s] = Append(@, f.name)]
  /\ IF Len(uploaded_analyzer_paths[s]) + 1 = Len(uploaded[s])
       THEN \E rerun \in RerunRequested :
              IF rerun
                THEN /\ UNCHANGED page
                     /\ pc' = [pc EXCEPT ![s] = "end"]
                     /\ button' = [button EXCEPT ![s] = "none"]
                ELSE /\ page' = [page EXCEPT ![s] =
                          Append(@, Msg("upload", "success",
                                        <<"Uploaded", ToString(Len(uploaded[s])),
                                          "file(s) to session.">>))]
                     /\ pc' = [pc EXCEPT ![s] = AfterTab1Stage(s)]
                     /\ UNCHANGED button
       ELSE /\ UNCHANGED << page, button >>
            /\ pc' = [pc EXCEPT ![s] = "stage_open"]
  /\ UNCHANGED << last_analyzer_report, last_transpiler_output, widgets, new_xml_path,
                  posts, escaped, tmp_fs, history >>

\* lines 161-186, the button was pressed; a widget event may arrive before
\* any st.* call of the handler
Tab1Analyze(s, replies) ==
  /\ pc[s] = "tab1_button"
  /\ \E resp \in replies :
     \E stop \in StopPoints(AnalyzerHandler(uploaded_analyzer_paths[s], input_fs, resp,
                                            last_analyzer_report[s], 0).page) :
       LET h == AnalyzerHandler(uploaded_analyzer_paths[s], input_fs, resp,
                                last_analyzer_report[s], stop) IN
       /\ page' = [page EXCEPT ![s] = @ \o h.page]
       /\ posts' = [posts EXCEPT ![s] = @ \o h.posts]
       /\ last_analyzer_report' = [last_analyzer_report EXCEPT ![s] = h.value]
       /\ escaped' = [escaped EXCEPT ![s] = h.escaped]
       /\ pc' = [pc EXCEPT ![s] = IF h.escaped = None THEN AfterAnalyze(s) ELSE "end"]
  /\ UNCHANGED << uploaded_analyzer_paths, last_transpiler_output, widgets, new_xml_path,
                  button, folders, history >>

\* lines 205-209: new_xml_path = tmp_root / new_xml.name; open(new_xml_path, "wb")
Tab2Open(s) ==
  /\ pc[s] = "tab2_open"
  /\ new_xml_path' = [new_xml_path EXCEPT ![s] = new_xml[s][1].name]
  /\ tmp_fs' = OpenForWrite(tmp_fs, new_xml[s][1].name)
  /\ pc' = [pc EXCEPT ![s] = "tab2_write"]
  /\ UNCHANGED << sessionState, widgets, button, page, posts, escaped, input_fs, history >>

\* lines 210-211; st.success is the first st.* call after the uploader
Tab2Write(s) ==
  /\ pc[s] = "tab2_write"
  /\ \E bytes \in WriteOutcomes(tmp_fs[new_xml_path[s]], new_xml[s][1].content) :
       tmp_fs' = WriteFile(tmp_fs, new_xml_path[s], bytes)
  /\ \E rerun \in RerunRequested :
       IF rerun
         THEN /\ UNCHANGED page
              /\ pc' = [pc EXCEPT ![s] = "end"]
              /\ button' = [button EXCEPT ![s] = ButtonSoFar(s)]
         ELSE /\ page' = [page EXCEPT ![s] =
                   Append(@, Msg("upload", "success", <<"Uploaded:", new_xml[s][1].name>>))]
              /\ pc' = [pc EXCEPT ![s] = AfterTab2Stage(s)]
              /\ UNCHANGED button
  /\ UNCHANGED << sessionState, widgets, new_xml_path, posts, escaped,
                  input_fs, history >>

\* lines 213-247, the button was pressed; st.stop() ends the run
Tab2Transpile(s) ==
  /\ pc[s] = "tab2_button"
  /\ \E resp \in TranspilerResponses :
     \E stop \in StopPoints(TranspilerHandler(run_mode[s], new_xml_path[s], tmp_fs, resp,
                                              last_transpiler_output[s], 0).page) :
       LET h == TranspilerHandler(run_mode[s], new_xml_path[s], tmp_fs, resp,
                                  last_transpiler_output[s], stop) IN
       /\ page' = [page EXCEPT ![s] = @ \o h.page]
       /\ posts' = [posts EXCEPT ![s] = @ \o h.posts]
       /\ last_transpiler_output' = [last_transpiler_output EXCEPT ![s] = h.value]
       /\ escaped' = [escaped EXCEPT ![s] = h.escaped]
  /\ pc' = [pc EXCEPT ![s] = "end"]
  /\ UNCHANGED << uploaded_analyzer_paths, last_analyzer_report, widgets, new_xml_path,
                  button, folders, history >>

\* lines 262-272, the button was pressed; hf_token is what
\* os.getenv("HUGGINGFACE_API_KEY") yields during the call
Tab3Validate(s) ==
  /\ pc[s] = "tab3_button"
  /\ \E xml_file \in Uploads, pyspark_file \in Uploads, hf_token \in EnvKeys,
        svc \in Services :
     \E stop \in StopPoints(ValidateHandler(xml_file, pyspark_file, hf_token, svc, 0).page) :
       LET v == ValidateHandler(xml_file, pyspark_file, hf_token, svc, stop) IN
       /\ page' = [page EXCEPT ![s] = @ \o v.page]
       /\ escaped' = [escaped EXCEPT ![s] = v.escaped]
  /\ pc' = [pc EXCEPT ![s] = "end"]
  /\ UNCHANGED << sessionState, widgets, new_xml_path, button, posts, folders, history >>

\* the script run is over (last statement on line 274, st.stop(), or a stop
\* for a re-run): its
\* locals are gone and the session waits for the next interaction
EndRun(s) ==
  /\ pc[s] = "end"
  /\ pc' = [pc EXCEPT ![s] = "idle"]
  /\ button' = [button EXCEPT ![s] = "none"]
  /\ page' = [page EXCEPT ![s] = <<>>]
  /\ posts' = [posts EXCEPT ![s] = <<>>]
  /\ escaped' = [escaped EXCEPT ![s] = None]
  /\ new_xml_path' = [new_xml_path EXCEPT ![s] = None]
  /\ UNCHANGED << sessionState, widgets, folders, history >>

\* ------------------------------------------------ one session, whole portal
\* The handlers read only the first staged file (line 168).
User == "A"

Next ==
  \/ UploadAnalyzerFiles(User, UserNames, Contents, MaxUpload)
  \/ ChooseRunMode(User)
  \/ UploadTranspilerFile(User)
  \/ TouchOtherWidget(User)
  \/ PressButton(User, {"analyze", "transpile", "validate"})
  \/ StopForRerun(User)
  \/ Prologue(User)
  \/ StageOpen(User)
  \/ StageWrite(User)
  \/ Tab1Analyze(User, AnalyzerResponses)
  \/ Tab2Open(User)
  \/ Tab2Write(User)
  \/ Tab2Transpile(User)
  \/ Tab3Validate(User)
  \/ EndRun(User)

Spec == Init /\ [][Next]_vars

\* ------------------------------------- two sessions on the Analyzer tab
\* each user uploads files of their own: odd contents are A's, even B's
Owner(c) ==
  IF c \notin Contents THEN "nobody" ELSE IF c % 2 = 1 THEN "A" ELSE "B"
OwnContents(s) == { c \in Contents : Owner(c) = s }

\* the backend answers with a report or cannot be reached
ConcurrentReplies ==
  { r \in AnalyzerResponses :
      \/ r.kind = "exception" /\ r.cls = "ConnectionError"
      \/ r.kind = "http" /\ r.json.tag = "dict"
           /\ DOMAIN r.json.val = {"status", "report_file"}
           /\ r.json.val["status"] = "success" }

NextConcurrent ==
  \E s \in Sessions :
    \/ UploadAnalyzerFiles(s, Names, OwnContents(s), MaxUpload)
    \/ TouchOtherWidget(s)
    \/ PressButton(s, {"analyze"})
    \/ StopForRerun(s)
    \/ Prologue(s)
    \/ StageOpen(s)
    \/ StageWrite(s)
    \/ Tab1Analyze(s, ConcurrentReplies)
    \/ EndRun(s)

SpecConcurrent == Init /\ [][NextConcurrent]_vars

\* ---------------------------------------- llm_validate on its own
ValidateCall ==
  \E xml_text \in Texts, pyspark_text \in Texts, hf_token \in EnvKeys, svc \in Services :
    LET r == llm_validate(xml_text, pyspark_text, hf_token, svc) IN
    /\ calls' = << [xml_text |-> xml_text, pyspark_text |-> pyspark_text,
                    hf_token |-> hf_token, svc |-> svc,
                    result |-> r.result, escaped |-> r.escaped,
                    prompts |-> r.prompts] >>
    /\ no_key_reports' = IF IsFalsy(hf_token) /\ ~r.escaped
                           THEN no_key_reports \cup {r.result}
                           ELSE no_key_reports

NextValidate ==
  /\ ValidateCall
  /\ UNCHANGED << sessionState, widgets, new_xml_path, button, pc, page, posts,
                  escaped, folders >>

SpecValidate == Init /\ [][NextValidate]_vars

\* =================================================================
\* properties
\* =================================================================
\* the handler of button b has run in the current script run of session s
Invoked(s, b) ==
  /\ button[s] = b
  /\ pc[s] \in (IF b = "analyze" THEN {"tab2_open", "tab2_write", "end"} ELSE {"end"})
Rendered(s, src, levels) ==
  { i \in 1..Len(page[s]) : page[s][i].src = src /\ page[s][i].level \in levels }
FailureLevels == {"warning", "error"}
PostsTo(s, endpoint) == { i \in 1..Len(posts[s]) : posts[s][i].endpoint = endpoint }
SourceOf(endpoint) == IF endpoint = "/run_analyzer" THEN "analyzer" ELSE "transpiler"
CredentialAbsent(t) == ~t.set \/ t.val = <<>>

C2_TranspileWithoutInputFails ==
  \A s \in Sessions :
    (Invoked(s, "transpile") /\ new_xml_path[s] = None
       /\ uploaded_analyzer_paths[s] = <<>>) =>
      /\ \E i \in Rendered(s, "transpiler", FailureLevels) :
           page[s][i].text = <<"Please upload an XML first.">>
      /\ PostsTo(s, "/run_transpiler") = {}

\* C3 (as claimed): llm_validate never raises and its report is never empty,
\* whatever the credential and the text-generation service do.
C3_ReportNeverEmpty ==
  \A i \in 1..Len(calls) : ~calls[i].escaped /\ Len(calls[i].result) > 0

\* C4: without a configured credential llm_validate returns the fixed mock
\* report whatever its inputs (all reports returned without a key are one
\* and the same) and sends no prompt to the text-generation service.
C4_NoKeyFixedMock ==
  /\ \A i \in 1..Len(calls) :
       CredentialAbsent(calls[i].hf_token) =>
         /\ ~calls[i].escaped
         /\ calls[i].result = MockReport
         /\ calls[i].prompts = <<>>
  /\ Cardinality(no_key_reports) <= 1

\* C4 witness: a call without credential on two different documents, with a
\* service that would have answered
C4_Witness ==
  /\ Len(calls) = 1
  /\ CredentialAbsent(calls[1].hf_token)
  /\ calls[1].xml_text # calls[1].pyspark_text
  /\ calls[1].svc.kind = "returns"
  /\ no_key_reports = {MockReport}

\* C5 (as claimed): the content a session's analyze sends to the backend is
\* content that session uploaded itself.
C5_AnalyzeSendsOwnUpload ==
  \A s \in Sessions :
    \A i \in PostsTo(s, "/run_analyzer") : Owner(posts[s][i].file) = s

\* the current run of session s has staged what its uploaders hold (the
\* notice of line 159 is on the page, resp. the tab2 file was written) and
\* the run is not over yet
Tab1Staged(s) ==
  /\ uploaded[s] # <<>>
  /\ \E i \in 1..Len(page[s]) :
       page[s][i] = Msg("upload", "success",
                        <<"Uploaded", ToString(Len(uploaded[s])), "file(s) to session.">>)
Tab2Staged(s) ==
  /\ new_xml_path[s] # None
  /\ pc[s] \in {"tab2_button", "tab3_button", "end"}

\* C6 (as claimed): once a run has staged its uploads, each recorded path
\* reads back the bytes of the upload recorded at that position, and the
\* tab2 path the bytes of the fresh file.
C6_ReadBackByPosition ==
  \A s \in Sessions :
    /\ Tab1Staged(s) =>
         \A i \in 1..Len(uploaded_analyzer_paths[s]) :
           input_fs[uploaded_analyzer_paths[s][i]] = uploaded[s][i].content
    /\ Tab2Staged(s) => tmp_fs[new_xml_path[s]] = new_xml[s][1].content

OnlyFailed(s, src) ==
  Rendered(s, src, FailureLevels) # {} /\ Rendered(s, src, {"success"}) = {}

\* C7 (as claimed): the recorded last result of a step is that of the latest
\* invocation, so after an invocation that only failed no earlier report
\* path or output folder is recorded.
C7_LastResultIsLatest ==
  \A s \in Sessions :
    /\ (Invoked(s, "analyze") /\ OnlyFailed(s, "analyzer"))
         => last_analyzer_report[s] = None
    /\ (Invoked(s, "transpile") /\ OnlyFailed(s, "transpiler"))
         => last_transpiler_output[s] = None

\* C8 (as claimed): a transport failure of the analyze or transpile request
\* (connection refused, timeout, non-200 status, unparsable body) is
\* rendered as exactly one failure message carrying the underlying error
\* text, with no success message, and no exception leaves the handler.
C8_TransportFailureIsOneError ==
  \A s \in Sessions :
    \A i \in 1..Len(posts[s]) :
      posts[s][i].failure # None =>
        LET src == SourceOf(posts[s][i].endpoint) IN
        /\ Cardinality(Rendered(s, src, FailureLevels)) = 1
        /\ \A j \in Rendered(s, src, FailureLevels) :
             /\ page[s][j].level = "error"
             /\ Contains(page[s][j].text, <<posts[s][i].failure>>)
        /\ Rendered(s, src, {"success"}) = {}
        /\ escaped[s] = None

\* C9 (as claimed): a reported success comes with the result path of the
\* reply recorded in the session and with no failure message.
C9_SuccessRecordsResult ==
  \A s \in Sessions :
    /\ Rendered(s, "analyzer", {"success"}) # {} =>
         /\ Len(posts[s]) = 1
         /\ posts[s][1].result \in ReportFiles
         /\ last_analyzer_report[s] = posts[s][1].result
         /\ Rendered(s, "analyzer", FailureLevels) = {}
    /\ Rendered(s, "transpiler", {"success"}) # {} =>
         /\ Len(posts[s]) = 1
         /\ posts[s][1].result \in OutputFolders
         /\ last_transpiler_output[s] = posts[s][1].result
         /\ Rendered(s, "transpiler", FailureLevels) = {}

\* C10 (as claimed): with a credential present, an exception of the client
\* or of the text-generation call yields the textual error report with the
\* exception's message, never the mock report.
C10_MockOnlyWithoutKey ==
  \A i \in 1..Len(calls) :
    (~CredentialAbsent(calls[i].hf_token)
       /\ calls[i].svc.kind \in {"ctor_raises", "gen_raises"}) =>
      /\ calls[i].result = <<ErrorPrefix>> \o calls[i].svc.msg
      /\ calls[i].result # MockReport
====
